---- MODULE Spec2Model ----
(***************************************************************************)
(* Huffman encoder of src/huffman.py: frequency counting, construction of  *)
(* the Huffman tree over a sorted working list, code derivation, header    *)
(* and payload output.                                                     *)
(*                                                                         *)
(* Python strings are sequences of one-character strings; an input file is *)
(* the sequence of the code points (ord) of its characters. The working   *)
(* list huf_lis is a sequence: its element i (from 0) is element i + 1.    *)
(* A 256-entry table made by [v] * 256 is held as the value v it was       *)
(* filled with and the entries that differ from v.                         *)
(***************************************************************************)
EXTENDS Integers, Sequences, FiniteSets, TLC

VARIABLES
    in_exists,   \* os.path.isfile(in_file)
    in_data,     \* the characters of in_file, as code points
    out_exists,  \* whether out_file exists
    out_data,    \* the characters of out_file
    out_before,  \* out_file as it was when huffman_encode was called
    pc,          \* position of the running call
    raised,      \* the exception that ended the call, or "none"
    freqlist,    \* huffman_encode: freqlist
    char_freq,   \* create_huff_tree: char_freq
    huf_lis,     \* create_huff_tree: huf_lis
    frames,      \* huff_helper: the loop index x of each active call, innermost last
    huff,        \* the value create_huff_tree returned
    code_list,   \* the value create_code returned
    iters,       \* iterations of the merge loop so far
    swaps,       \* swaps huff_helper made since create_huff_tree was called
    a,           \* combine: first argument
    b,           \* combine: second argument
    new_node     \* combine: result

vars == <<in_exists, in_data, out_exists, out_data, out_before, pc, raised,
          freqlist, char_freq, huf_lis, frames, huff, code_list, iters, swaps,
          a, b, new_node>>

(***************************************************************************)
(* Bounds of the model and constants of the program.                       *)
(***************************************************************************)
MaxLen == 5
MaxFreq == 2
TableSize == 256

\* characters of the input files: a, b, c, d and one beyond the table (U+20AC)
InputChars == {97, 98, 99, 100, 8364}
\* symbols of the frequency tables given to create_huff_tree directly
TreeSyms == {97, 98, 99, 100, 122}
Scenario1 == <<97, 97, 97, 98, 98, 98, 98, 99, 99>>
Scenario3 == <<122, 122, 122, 122>>

Symbols == 0 .. (TableSize - 1)
\* [v] * 256, list[i] and list[i] = w for 0 <= i < 256
filled(v) == [init |-> v, set |-> <<>>]

item(list, i) == IF i \in DOMAIN list.set THEN list.set[i] ELSE list.init

setitem(list, i, w) ==
    [list EXCEPT !.set =
        [j \in IF w = list.init THEN DOMAIN @ \ {i} ELSE DOMAIN @ \cup {i} |->
            IF j = i THEN w ELSE @[j]]]

ZeroTable == filled(0)
Front(s) == SubSeq(s, 1, Len(s) - 1)
Last(s) == s[Len(s)]

(***************************************************************************)
(* HuffmanNode, comes_before, combine                                      *)
(***************************************************************************)
None == [none |-> TRUE]

HuffmanNode(char_ascii, freq, left, right) ==
    [char_ascii |-> char_ascii, freq |-> freq, left |-> left, right |-> right]

comes_before(x, y) ==
    IF x.freq < y.freq
    THEN TRUE
    ELSE IF x.freq = y.freq
         THEN (IF x.char_ascii < y.char_ascii THEN TRUE ELSE FALSE)
         ELSE FALSE

\* variant of combine: the branch a.freq > b.freq, a.char_ascii < b.char_ascii
\* keeps a on the left
combine_swapped(x, y) ==
    IF x.freq < y.freq
    THEN IF x.char_ascii < y.char_ascii
         THEN HuffmanNode(x.char_ascii, x.freq + y.freq, x, y)
         ELSE HuffmanNode(y.char_ascii, x.freq + y.freq, x, y)
    ELSE IF x.freq = y.freq
         THEN IF x.char_ascii < y.char_ascii
              THEN HuffmanNode(x.char_ascii, x.freq + y.freq, x, y)
              ELSE HuffmanNode(y.char_ascii, x.freq + y.freq, y, x)
         ELSE IF x.char_ascii < y.char_ascii
              THEN HuffmanNode(x.char_ascii, x.freq + y.freq, x, y)
              ELSE HuffmanNode(y.char_ascii, x.freq + y.freq, y, x)

\* variant of combine: the new node takes the first argument's freq
combine_first_weight(x, y) ==
    IF comes_before(x, y)
    THEN HuffmanNode(x.char_ascii, x.freq, x, y)
    ELSE HuffmanNode(y.char_ascii, x.freq, y, x)

combine(x, y) ==
    IF x.freq < y.freq
    THEN IF x.char_ascii < y.char_ascii
         THEN HuffmanNode(x.char_ascii, x.freq + y.freq, x, y)
         ELSE HuffmanNode(y.char_ascii, x.freq + y.freq, x, y)
    ELSE IF x.freq = y.freq
         THEN IF x.char_ascii < y.char_ascii
              THEN HuffmanNode(x.char_ascii, x.freq + y.freq, x, y)
              ELSE HuffmanNode(y.char_ascii, x.freq + y.freq, y, x)
         ELSE IF x.char_ascii < y.char_ascii
              THEN HuffmanNode(x.char_ascii, x.freq + y.freq, y, x)
              ELSE HuffmanNode(y.char_ascii, x.freq + y.freq, y, x)

(***************************************************************************)
(* cnt_freq                                                                *)
(***************************************************************************)
RECURSIVE count_chars(_, _, _)
count_chars(data, k, values) ==
    IF k > Len(data)
    THEN [raised |-> "none", values |-> values]
    ELSE IF data[k] >= TableSize
         THEN [raised |-> "IndexError", values |-> values]
         ELSE count_chars(data, k + 1, setitem(values, data[k], item(values, data[k]) + 1))

cnt_freq(exists, data) ==
    IF exists = FALSE
    THEN [raised |-> "FileNotFoundError", values |-> ZeroTable]
    ELSE count_chars(data, 1, ZeroTable)

(***************************************************************************)
(* create_huff_tree: the pieces of its body                                *)
(***************************************************************************)
\* The loops over the 256 slots are folded over the index range lo .. hi - 1 by
\* halves: the slots are visited in ascending order, the evaluation stays shallow.
RECURSIVE sum_range(_, _, _)
sum_range(freqs, lo, hi) ==
    IF hi <= lo
    THEN 0
    ELSE IF hi = lo + 1
         THEN item(freqs, lo)
         ELSE LET mid == (lo + hi) \div 2
              IN  sum_range(freqs, lo, mid) + sum_range(freqs, mid, hi)

sum(freqs) == sum_range(freqs, 0, TableSize)

RECURSIVE leaves_range(_, _, _)
leaves_range(freqs, lo, hi) ==
    IF hi <= lo
    THEN <<>>
    ELSE IF hi = lo + 1
         THEN (IF item(freqs, lo) # 0
               THEN <<HuffmanNode(lo, item(freqs, lo), None, None)>>
               ELSE <<>>)
         ELSE LET mid == (lo + hi) \div 2
              IN  leaves_range(freqs, lo, mid) \o leaves_range(freqs, mid, hi)

leaves(freqs) == leaves_range(freqs, 0, TableSize)

\* list.sort(key = freq): the stable ascending sort. The node at index k goes
\* behind the nodes of smaller freq and the nodes of equal freq that were before it.
list_sort(lis) ==
    LET n == Len(lis)
        rank(k) == 1 + Cardinality({j \in 1 .. n :
                           \/ lis[j].freq < lis[k].freq
                           \/ (lis[j].freq = lis[k].freq /\ j < k)})
    IN  [p \in 1 .. n |-> lis[CHOOSE k \in 1 .. n : rank(k) = p]]

swap(lis, x) ==
    [lis EXCEPT ![x + 1] = lis[x + 2], ![x + 2] = lis[x + 1]]

(***************************************************************************)
(* create_code, create_header, the payload loop of huffman_encode          *)
(***************************************************************************)
EmptyCodes == filled(<<>>)

RECURSIVE create_code_helper(_, _, _)
\* variant of create_code_helper: both branches append "0"
create_code_helper_same_digit(node, code, py_list) ==
    IF node.left = None /\ node.right = None
    THEN setitem(py_list, node.char_ascii, code)
    ELSE create_code_helper(node.right, code \o <<"0">>,
             create_code_helper(node.left, code \o <<"0">>, py_list))

create_code_helper(node, code, py_list) ==
    IF node.left = None /\ node.right = None
    THEN setitem(py_list, node.char_ascii, code)
    ELSE create_code_helper(node.right, code \o <<"1">>,
             create_code_helper(node.left, code \o <<"0">>, py_list))

\* variant of create_code: the traversal starts from the code "0"
create_code_zero_root(node) == create_code_helper(node, <<"0">>, EmptyCodes)

create_code(node) == create_code_helper(node, <<>>, EmptyCodes)

Digits == <<"0", "1", "2", "3", "4", "5", "6", "7", "8", "9">>

RECURSIVE str(_)
str(n) ==
    IF n < 10 THEN <<Digits[n + 1]>> ELSE str(n \div 10) \o <<Digits[(n % 10) + 1]>>

RECURSIVE header_range(_, _, _)
header_range(freqs, lo, hi) ==
    IF hi <= lo
    THEN <<>>
    ELSE IF hi = lo + 1
         THEN (IF item(freqs, lo) # 0
               THEN str(lo) \o <<" ">> \o str(item(freqs, lo)) \o <<" ">>
               ELSE <<>>)
         ELSE LET mid == (lo + hi) \div 2
              IN  header_range(freqs, lo, mid) \o header_range(freqs, mid, hi)

create_header(freqs) ==
    LET header == header_range(freqs, 0, TableSize)
    IN  SubSeq(header, 1, Len(header) - 1)

\* variant of the payload loop: code = code_list[ord(char)] + code
RECURSIVE encode_prepending(_, _)
encode_prepending(phrase, codes) ==
    IF Len(phrase) = 0
    THEN <<>>
    ELSE item(codes, Last(phrase)) \o encode_prepending(Front(phrase), codes)

RECURSIVE encode_phrase(_, _)
encode_phrase(phrase, codes) ==
    IF Len(phrase) = 0
    THEN <<>>
    ELSE encode_phrase(Front(phrase), codes) \o item(codes, Last(phrase))

(***************************************************************************)
(* create_huff_tree, huff_helper and create_code as steps                  *)
(***************************************************************************)
fileVars == <<in_exists, in_data, out_exists, out_data, out_before>>
combineVars == <<a, b, new_node>>

\* lines 80-90: the zero test, the leaves, the first sort, the call of huff_helper
\* (\E over a one-element set names a value that is then used several times)
CreateHuffTree ==
    /\ pc = "create_huff_tree"
    /\ IF sum(char_freq) = 0
       THEN /\ huff' = None
            /\ pc' = "returned"
            /\ UNCHANGED <<huf_lis, frames>>
       ELSE /\ \E lis \in {leaves(char_freq)} : huf_lis' = list_sort(lis)
            /\ frames' = <<0>>
            /\ pc' = "huff_helper"
            /\ huff' = huff
    /\ swaps' = 0
    /\ UNCHANGED <<fileVars, combineVars, raised, freqlist, char_freq, code_list, iters>>

\* line 70-71: the pair at x is in order, the loop goes on
HHAdvance ==
    /\ pc = "huff_helper"
    /\ Last(frames) < Len(huf_lis) - 1
    /\ comes_before(huf_lis[Last(frames) + 1], huf_lis[Last(frames) + 2]) # FALSE
    /\ frames' = [frames EXCEPT ![Len(frames)] = @ + 1]
    /\ UNCHANGED <<fileVars, combineVars, pc, raised, freqlist, char_freq, huf_lis,
                   huff, code_list, iters, swaps>>

\* variant of the swap step: the swap is made, huff_helper is not called again
HHSwap_no_recursion ==
    /\ pc = "huff_helper"
    /\ Last(frames) < Len(huf_lis) - 1
    /\ comes_before(huf_lis[Last(frames) + 1], huf_lis[Last(frames) + 2]) = FALSE
    /\ huf_lis' = swap(huf_lis, Last(frames))
    /\ frames' = [frames EXCEPT ![Len(frames)] = @ + 1]
    /\ swaps' = swaps + 1
    /\ UNCHANGED <<fileVars, combineVars, pc, raised, freqlist, char_freq,
                   huff, code_list, iters>>

\* lines 71-73: the pair at x is out of order: swap it and call huff_helper again
HHSwap ==
    /\ pc = "huff_helper"
    /\ Last(frames) < Len(huf_lis) - 1
    /\ comes_before(huf_lis[Last(frames) + 1], huf_lis[Last(frames) + 2]) = FALSE
    /\ huf_lis' = swap(huf_lis, Last(frames))
    /\ frames' = Append([frames EXCEPT ![Len(frames)] = @ + 1], 0)
    /\ swaps' = swaps + 1
    /\ UNCHANGED <<fileVars, combineVars, pc, raised, freqlist, char_freq,
                   huff, code_list, iters>>

\* line 70: the range is exhausted, this call of huff_helper returns
HHReturn ==
    /\ pc = "huff_helper"
    /\ Last(frames) >= Len(huf_lis) - 1
    /\ frames' = Front(frames)
    /\ pc' = IF Len(frames) = 1 THEN "while" ELSE "huff_helper"
    /\ UNCHANGED <<fileVars, combineVars, raised, freqlist, char_freq, huf_lis,
                   huff, code_list, iters, swaps>>

\* variant of the loop body: huf_lis = huf_lis[1:]
MergeStep_keep_one ==
    /\ pc = "while"
    /\ Len(huf_lis) >= 2
    /\ \E new \in {combine(huf_lis[1], huf_lis[2])} :
           \E lis \in {Tail(Append(huf_lis, new))} : huf_lis' = list_sort(lis)
    /\ frames' = <<0>>
    /\ pc' = "huff_helper"
    /\ iters' = iters + 1
    /\ UNCHANGED <<fileVars, combineVars, raised, freqlist, char_freq, huff, code_list,
                   swaps>>

\* lines 91-96: one iteration of the merge loop, up to the call of huff_helper
MergeStep ==
    /\ pc = "while"
    /\ Len(huf_lis) >= 2
    /\ \E new \in {combine(huf_lis[1], huf_lis[2])} :
           \E lis \in {Tail(Tail(Append(huf_lis, new)))} : huf_lis' = list_sort(lis)
    /\ frames' = <<0>>
    /\ pc' = "huff_helper"
    /\ iters' = iters + 1
    /\ UNCHANGED <<fileVars, combineVars, raised, freqlist, char_freq, huff, code_list,
                   swaps>>

\* lines 91, 97: the loop ends and the remaining node is returned
ReturnRoot ==
    /\ pc = "while"
    /\ ~(Len(huf_lis) >= 2)
    /\ huff' = huf_lis[1]
    /\ pc' = "returned"
    /\ UNCHANGED <<fileVars, combineVars, raised, freqlist, char_freq, huf_lis, frames,
                   code_list, iters, swaps>>

\* line 141 (lines 100-114): create_code on a tree that is not None
CreateCode ==
    /\ pc = "returned"
    /\ huff # None
    /\ code_list' = create_code(huff)
    /\ pc' = "coded"
    /\ UNCHANGED <<fileVars, combineVars, raised, freqlist, char_freq, huf_lis, frames,
                   huff, iters, swaps>>

NextTree ==
    \/ CreateHuffTree
    \/ HHAdvance
    \/ HHSwap
    \/ HHReturn
    \/ MergeStep
    \/ ReturnRoot
    \/ CreateCode

(***************************************************************************)
(* huffman_encode                                                          *)
(***************************************************************************)
\* variant of the entry: the output is opened for writing before cnt_freq is called
EncodeCntFreq_open_first ==
    /\ pc = "huffman_encode"
    /\ out_exists' = TRUE
    /\ out_data' = <<>>
    /\ LET r == cnt_freq(in_exists, in_data)
       IN  IF r.raised # "none"
           THEN /\ raised' = r.raised
                /\ pc' = "raised"
                /\ UNCHANGED <<freqlist, char_freq>>
           ELSE /\ freqlist' = r.values
                /\ char_freq' = r.values
                /\ pc' = "create_huff_tree"
                /\ raised' = raised
    /\ UNCHANGED <<in_exists, in_data, out_before, combineVars,
                   huf_lis, frames, huff, code_list, iters, swaps>>

\* line 135, and the call of line 136
EncodeCntFreq ==
    /\ pc = "huffman_encode"
    /\ LET r == cnt_freq(in_exists, in_data)
       IN  IF r.raised # "none"
           THEN /\ raised' = r.raised
                /\ pc' = "raised"
                /\ UNCHANGED <<freqlist, char_freq>>
           ELSE /\ freqlist' = r.values
                /\ char_freq' = r.values
                /\ pc' = "create_huff_tree"
                /\ raised' = raised
    /\ UNCHANGED <<fileVars, combineVars, huf_lis, frames, huff, code_list, iters, swaps>>

\* variant of the None branch: the header line is written all the same
EncodeEmpty_newline ==
    /\ pc = "returned"
    /\ huff = None
    /\ out_exists' = TRUE
    /\ out_data' = create_header(freqlist) \o <<"\n">>
    /\ pc' = "done"
    /\ UNCHANGED <<in_exists, in_data, out_before, combineVars, raised, freqlist,
                   char_freq, huf_lis, frames, huff, code_list, iters, swaps>>

\* lines 137-139: no tree, the output is opened for writing and closed
EncodeEmpty ==
    /\ pc = "returned"
    /\ huff = None
    /\ out_exists' = TRUE
    /\ out_data' = <<>>
    /\ pc' = "done"
    /\ UNCHANGED <<in_exists, in_data, out_before, combineVars, raised, freqlist,
                   char_freq, huf_lis, frames, huff, code_list, iters, swaps>>

\* lines 142-151: the second read, the payload, the header, the two writes
EncodeWrite ==
    /\ pc = "coded"
    /\ LET phrase == in_data
           code == encode_phrase(phrase, code_list)
           header == create_header(freqlist)
       IN  /\ out_exists' = TRUE
           /\ out_data' = (header \o <<"\n">>) \o code
    /\ pc' = "done"
    /\ UNCHANGED <<in_exists, in_data, out_before, combineVars, raised, freqlist,
                   char_freq, huf_lis, frames, huff, code_list, iters, swaps>>

Next ==
    \/ EncodeCntFreq
    \/ CreateHuffTree
    \/ HHAdvance
    \/ HHSwap
    \/ HHReturn
    \/ MergeStep
    \/ ReturnRoot
    \/ CreateCode
    \/ EncodeEmpty
    \/ EncodeWrite

(***************************************************************************)
(* combine applied to two arbitrary nodes                                  *)
(***************************************************************************)
Combine ==
    /\ pc = "combine"
    /\ new_node' = combine(a, b)
    /\ pc' = "combined"
    /\ UNCHANGED <<fileVars, a, b, raised, freqlist, char_freq, huf_lis, frames,
                   huff, code_list, iters, swaps>>

NextCombine == Combine

(***************************************************************************)
(* Initial states and specifications                                       *)
(***************************************************************************)
RECURSIVE SeqsUpTo(_, _)
SeqsUpTo(S, n) ==
    IF n = 0
    THEN {<<>>}
    ELSE LET shorter == SeqsUpTo(S, n - 1)
         IN  shorter \cup {Append(s, c) : s \in shorter, c \in S}

Inputs == SeqsUpTo(InputChars, MaxLen) \cup {Scenario1, Scenario3}

OldOutputs == {[exists |-> FALSE, data |-> <<>>],
               [exists |-> TRUE, data |-> <<"o", "l", "d">>]}

FreqTables ==
    {[init |-> 0, set |-> [i \in {j \in TreeSyms : t[j] # 0} |-> t[i]]] :
        t \in [TreeSyms -> 0 .. MaxFreq]}

ArgLeaves == {HuffmanNode(c, f, None, None) : c \in TreeSyms, f \in 1 .. MaxFreq}

ArgNodes ==
    ArgLeaves \cup {HuffmanNode(c, 2, HuffmanNode(c, 1, None, None),
                                      HuffmanNode(123, 1, None, None)) : c \in TreeSyms}

InitLocals ==
    /\ raised = "none"
    /\ freqlist = ZeroTable
    /\ huf_lis = <<>>
    /\ frames = <<>>
    /\ huff = None
    /\ code_list = EmptyCodes
    /\ iters = 0
    /\ swaps = 0

Init ==
    /\ pc = "huffman_encode"
    /\ in_exists \in BOOLEAN
    /\ in_data \in (IF in_exists THEN Inputs ELSE {<<>>})
    /\ out_before \in OldOutputs
    /\ out_exists = out_before.exists
    /\ out_data = out_before.data
    /\ char_freq = ZeroTable
    /\ a = None /\ b = None /\ new_node = None
    /\ InitLocals

InitTree ==
    /\ pc = "create_huff_tree"
    /\ char_freq \in FreqTables
    /\ in_exists = FALSE /\ in_data = <<>>
    /\ out_before = [exists |-> FALSE, data |-> <<>>]
    /\ out_exists = FALSE /\ out_data = <<>>
    /\ a = None /\ b = None /\ new_node = None
    /\ InitLocals

InitCombine ==
    /\ pc = "combine"
    /\ a \in ArgNodes
    /\ b \in ArgNodes
    /\ new_node = None
    /\ char_freq = ZeroTable
    /\ in_exists = FALSE /\ in_data = <<>>
    /\ out_before = [exists |-> FALSE, data |-> <<>>]
    /\ out_exists = FALSE /\ out_data = <<>>
    /\ InitLocals

Spec == Init /\ [][Next]_vars

SpecTree == InitTree /\ [][NextTree]_vars

\* the program is sequential: a step that can be taken is taken
FairSpecTree == InitTree /\ [][NextTree]_vars /\ WF_vars(NextTree)

SpecCombine == InitCombine /\ [][NextCombine]_vars

(***************************************************************************)
(* Properties                                                              *)
(***************************************************************************)
NonZero(freqs) == {i \in Symbols : item(freqs, i) # 0}

IsPrefix(p, q) == Len(p) <= Len(q) /\ SubSeq(q, 1, Len(p)) = p

IsLeaf(node) == node # None /\ node.left = None /\ node.right = None

Occurrences(data, c) == Cardinality({k \in DOMAIN data : data[k] = c})

RECURSIVE CodesFrom(_, _, _)
CodesFrom(data, codes, k) ==
    IF k > Len(data) THEN <<>> ELSE item(codes, data[k]) \o CodesFrom(data, codes, k + 1)

FirstNewline(text) ==
    CHOOSE k \in DOMAIN text : text[k] = "\n" /\ \A j \in 1 .. (k - 1) : text[j] # "\n"

HeaderLine(text) == SubSeq(text, 1, FirstNewline(text) - 1)

Payload(text) == SubSeq(text, FirstNewline(text) + 1, Len(text))

RECURSIVE LeafSum(_)
LeafSum(node) ==
    IF IsLeaf(node)
    THEN item(char_freq, node.char_ascii)
    ELSE LeafSum(node.left) + LeafSum(node.right)

RECURSIVE WeightOk(_)
WeightOk(node) ==
    /\ node.freq = LeafSum(node)
    /\ IsLeaf(node) \/ (node.left # None /\ node.right # None
                        /\ WeightOk(node.left) /\ WeightOk(node.right))

RECURSIVE Depth(_)
Depth(node) ==
    IF IsLeaf(node)
    THEN 0
    ELSE 1 + (IF Depth(node.left) > Depth(node.right) THEN Depth(node.left)
                                                      ELSE Depth(node.right))

Min(m, n) == IF m < n THEN m ELSE n

\* C1 as stated: with at least two nonzero entries, no entry of the whole code
\* table create_code returned is a prefix of another symbol's entry.
C1_PrefixFreeWholeTable ==
    (pc = "coded" /\ Cardinality(NonZero(char_freq)) >= 2) =>
        \A s \in Symbols : \A t \in Symbols :
            s # t => ~IsPrefix(item(code_list, s), item(code_list, t))

\* C1 amended: with at least two nonzero entries, no code of a symbol with nonzero
\* frequency is a prefix of the code of a different symbol with nonzero frequency.
C1_PrefixFreeUsedSymbols ==
    (pc = "coded" /\ Cardinality(NonZero(char_freq)) >= 2) =>
        \A s \in NonZero(char_freq) : \A t \in NonZero(char_freq) :
            s # t => ~IsPrefix(item(code_list, s), item(code_list, t))

C1_Witness ==
    /\ pc = "coded"
    /\ Cardinality(NonZero(char_freq)) >= 4
    /\ \E s \in NonZero(char_freq) : Len(item(code_list, s)) >= 3

\* C2: whenever the merge loop tests its condition (after list.sort and
\* huff_helper) the working list is strictly ascending under comes_before, so
\* huf_lis[0] and huf_lis[1] precede every other node of the list.
C2_SortedAtLoopHead ==
    pc = "while" =>
        \A i \in DOMAIN huf_lis : \A j \in DOMAIN huf_lis :
            i < j => (comes_before(huf_lis[i], huf_lis[j])
                      /\ ~comes_before(huf_lis[j], huf_lis[i]))

C2_Witness ==
    /\ pc = "while"
    /\ Len(huf_lis) >= 3
    /\ iters >= 1
    /\ swaps >= 2

\* C3: combine(a, b), in either argument order, returns a node whose freq is the
\* sum, whose char_ascii is the smaller of the two, whose left child is the
\* argument that comes before the other and whose right child is the other.
C3_CombineCanonical ==
    pc = "combined" =>
        /\ new_node.freq = a.freq + b.freq
        /\ new_node.char_ascii = Min(a.char_ascii, b.char_ascii)
        /\ comes_before(a, b) => (new_node.left = a /\ new_node.right = b)
        /\ comes_before(b, a) => (new_node.left = b /\ new_node.right = a)
        /\ {new_node.left, new_node.right} = {a, b}

C3_Witness ==
    /\ pc = "combined"
    /\ comes_before(b, a)
    /\ a.char_ascii < b.char_ascii
    /\ new_node.left = b

\* C4: for a non-empty input that was encoded, the output is the header line
\* followed by the codes of the input's symbols in stream order, the codes being
\* those derived from the tree of the input's own frequency table; "aaabbbbcc"
\* gives b = 0, c = 10, a = 11 and the payload 11111100001010.
C4_PayloadIsCodesInOrder ==
    (pc = "done" /\ Len(in_data) > 0) =>
        /\ \A c \in Symbols : item(char_freq, c) = Occurrences(in_data, c)
        /\ HeaderLine(out_data) = create_header(freqlist)
        /\ Payload(out_data) = CodesFrom(in_data, code_list, 1)
        /\ in_data = Scenario1 =>
              /\ item(code_list, 98) = <<"0">>
              /\ item(code_list, 99) = <<"1", "0">>
              /\ item(code_list, 97) = <<"1", "1">>
              /\ Payload(out_data) = <<"1", "1", "1", "1", "1", "1", "0", "0", "0", "0",
                                       "1", "0", "1", "0">>

C4_Witness ==
    /\ pc = "done"
    /\ Cardinality(NonZero(freqlist)) = 3
    /\ in_data # Scenario1
    /\ Len(Payload(out_data)) > Len(in_data)

\* C5 as stated: when the input exists the call raises nothing, and its output is
\* then zero-length or the header line followed by the payload.
C5_NoFailureOnExistingInput ==
    in_exists =>
        /\ raised = "none"
        /\ pc # "raised"
        /\ pc = "done" =>
              /\ out_exists
              /\ \/ out_data = <<>>
                 \/ out_data = (create_header(freqlist) \o <<"\n">>)
                                  \o CodesFrom(in_data, code_list, 1)

\* C6: when the input does not exist the call ends with FileNotFoundError before
\* anything is counted, and the output is as it was before the call.
C6_NotFoundLeavesOutput ==
    (~in_exists) =>
        /\ out_exists = out_before.exists
        /\ out_data = out_before.data
        /\ pc # "huffman_encode" =>
              (pc = "raised" /\ raised = "FileNotFoundError" /\ freqlist = ZeroTable)

C6_Witness ==
    /\ ~in_exists
    /\ pc = "raised"
    /\ raised = "FileNotFoundError"
    /\ out_before.exists
    /\ out_data = <<"o", "l", "d">>

\* C7: every node of the working list, and every node below one, has freq equal
\* to the sum of the frequencies of its leaves, and the returned root's freq is
\* the sum of the frequency table.
C7_WeightIsLeafSum ==
    /\ \A i \in DOMAIN huf_lis : WeightOk(huf_lis[i])
    /\ (pc \in {"returned", "coded"} /\ huff # None) =>
           (WeightOk(huff) /\ huff.freq = sum(char_freq))

C7_Witness ==
    /\ pc = "returned"
    /\ huff # None
    /\ Depth(huff) >= 3
    /\ huff.freq >= 6

\* C8: with exactly one nonzero entry the tree is a leaf without children, that
\* symbol's code is empty, and the output is the header line and nothing after
\* it; "zzzz" gives the header 122 4.
C8_SingleSymbol ==
    (pc = "done" /\ Cardinality(NonZero(freqlist)) = 1) =>
        /\ IsLeaf(huff)
        /\ \A c \in NonZero(freqlist) :
              /\ huff.char_ascii = c
              /\ huff.freq = item(freqlist, c)
              /\ item(code_list, c) = <<>>
        /\ out_exists
        /\ out_data = create_header(freqlist) \o <<"\n">>
        /\ Payload(out_data) = <<>>
        /\ in_data = Scenario3 => out_data = <<"1", "2", "2", " ", "4", "\n">>

C8_Witness ==
    /\ pc = "done"
    /\ in_data = Scenario3
    /\ IsLeaf(huff)
    /\ Len(out_data) = 6

\* C9: when the frequencies sum to 0 create_huff_tree returns None, and the
\* output of huffman_encode exists with zero characters.
C9_EmptyInput ==
    /\ (pc \in {"returned", "done"} /\ sum(char_freq) = 0) => huff = None
    /\ (pc = "done" /\ sum(freqlist) = 0) =>
           (huff = None /\ out_exists /\ out_data = <<>>)

C9_Witness ==
    /\ pc = "done"
    /\ in_exists
    /\ in_data = <<>>
    /\ out_before.exists
    /\ out_data = <<>>

\* C10: create_huff_tree returns; every call of huff_helper from it comes back
\* to the loop; each iteration shortens the working list by one node and
\* huff_helper keeps its length; with k nonzero counts the loop has run k - 1
\* times when the one remaining node is returned.
C10_Terminates ==
    /\ <>(pc = "returned")
    /\ (pc = "huff_helper") ~> (pc = "while")
    /\ [][(iters' = iters + 1 => Len(huf_lis') = Len(huf_lis) - 1)
          /\ (iters' = iters /\ pc = "huff_helper" => Len(huf_lis') = Len(huf_lis))]_vars
    /\ []((pc = "returned" /\ huff # None) =>
             (Len(huf_lis) = 1 /\ iters = Cardinality(NonZero(char_freq)) - 1))

C10_Witness ==
    /\ pc = "returned"
    /\ huff # None
    /\ iters >= 4
    /\ swaps >= 2

====
